---- MODULE Spec2Model ----
(***************************************************************************)
(* Baseline Copilot: the feature-detection and scoring engine.             *)
(*                                                                         *)
(* Two analyzers are modelled: BaselineAnalyzer (src/src/index.js), whose  *)
(* catalog is a literal table and whose analyzeCode is synchronous, and    *)
(* EnhancedBaselineAnalyzer (src/cli/index.ts), whose catalog is filled by *)
(* four asynchronous loaders started from the constructor and whose        *)
(* analyzeCode is asynchronous.                                            *)
(*                                                                         *)
(* Text is a sequence of one-character strings; a line feed is the         *)
(* character LF.  Scores are kept in tenths (the multipliers 1.5 and 0.8   *)
(* of the enhanced score make tenths the unit in which every score is an   *)
(* integer): 15 points are 150, the cap of 100 is 1000.                    *)
(***************************************************************************)
EXTENDS Integers, Sequences, FiniteSets, TLC

\* ------------------------------------------------------------------ bounds
\* Longest text (in lines) built from freely chosen lines.
MaxLines == 2
\* Longest text (in lines) built by repeating one line.
MaxRepeat == 20
\* analyzeCode calls of the enhanced analyzer that may wait at once.
MaxCalls == 2
\* Calls counted between a kept result and a later one.
MaxLater == 2
\* Events of a host's user (text changes, editor switches, clicks) in one run.
MaxEvents == 3
\* The web page is followed for this many milliseconds.
MaxTime == 1500

\* ------------------------------------------------------------- characters
LF == "\n"

UpperCase ==
  <<"A","B","C","D","E","F","G","H","I","J","K","L","M",
    "N","O","P","Q","R","S","T","U","V","W","X","Y","Z">>

LowerCase ==
  <<"a","b","c","d","e","f","g","h","i","j","k","l","m",
    "n","o","p","q","r","s","t","u","v","w","x","y","z">>

\* The characters a regular expression flagged /i accepts for c.
BothCases(c) ==
  {c} \cup {LowerCase[i] : i \in {j \in 1..26 : UpperCase[j] = c}}
      \cup {UpperCase[i] : i \in {j \in 1..26 : LowerCase[j] = c}}

\* \s and \d of the regular expressions, and the white space trim() strips.
WhiteSpace == {" ", "\t", "\r", LF}

Digits == {"0","1","2","3","4","5","6","7","8","9"}

\* ------------------------------------------------------- String.prototype
\* s.split('\n'): the pieces between line feeds; the empty text is one
\* empty line.
Split(s) ==
  LET feeds == {i \in 1..Len(s) : s[i] = LF}
      \* The position of the k-th line feed; 0 and Len(s) + 1 bound the text.
      Feed(k) == IF k = 0 THEN 0
                 ELSE IF k > Cardinality(feeds) THEN Len(s) + 1
                 ELSE CHOOSE p \in feeds : Cardinality({q \in feeds : q < p}) = k - 1
  IN [k \in 1..(Cardinality(feeds) + 1) |->
        SubSeq(s, Feed(k - 1) + 1, Feed(k) - 1)]

\* s.indexOf(sub): 0-based index of the first occurrence, -1 when none.
IndexOf(s, sub) ==
  LET hits == {i \in 1..(Len(s) - Len(sub) + 1) :
                 SubSeq(s, i, i + Len(sub) - 1) = sub}
  IN IF hits = {} THEN -1
     ELSE (CHOOSE i \in hits : \A j \in hits : i <= j) - 1

\* s.trim()
Trim(s) ==
  LET keep == {i \in 1..Len(s) : s[i] \notin WhiteSpace}
  IN IF keep = {} THEN <<>>
     ELSE SubSeq(s, CHOOSE i \in keep : \A j \in keep : i <= j,
                    CHOOSE i \in keep : \A j \in keep : i >= j)

\* ------------------------------------------------------ regular expressions
\* A pattern is a sequence of alternatives (a|b|c), an alternative a
\* sequence of items, an item a character class with a quantifier:
\* "1" (exactly one), "?" (greedy optional) or "*" (greedy star).
One(cs) == [chars |-> cs, q |-> "1"]
Opt(cs) == [chars |-> cs, q |-> "?"]
Star(cs) == [chars |-> cs, q |-> "*"]

\* A literal, case-sensitive and case-insensitive (flag i).
Lit(str) == [i \in 1..Len(str) |-> One({str[i]})]
LitI(str) == [i \in 1..Len(str) |-> One(BothCases(str[i]))]

\* The backtracking matcher: the position after the match of items k.. of
\* alt against s from position pos, 0 when there is none.  Greedy items
\* take the character first and give it back on failure.
RECURSIVE MatchItems(_, _, _, _)
MatchItems(alt, k, s, pos) ==
  IF k > Len(alt) THEN pos
  ELSE
    LET it == alt[k]
        here == pos <= Len(s) /\ s[pos] \in it.chars
    IN CASE it.q = "1" ->
              IF here THEN MatchItems(alt, k + 1, s, pos + 1) ELSE 0
         [] it.q = "?" ->
              LET taken == IF here THEN MatchItems(alt, k + 1, s, pos + 1) ELSE 0
              IN IF taken # 0 THEN taken ELSE MatchItems(alt, k + 1, s, pos)
         [] OTHER ->
              LET taken == IF here THEN MatchItems(alt, k, s, pos + 1) ELSE 0
              IN IF taken # 0 THEN taken ELSE MatchItems(alt, k + 1, s, pos)

\* The first alternative (from a on) of pattern that matches s at pos: the
\* position after its match, 0 when no alternative matches there.
RECURSIVE MatchAlternatives(_, _, _, _)
MatchAlternatives(pattern, a, s, pos) ==
  IF a > Len(pattern) THEN 0
  ELSE LET e == MatchItems(pattern[a], 1, s, pos)
       IN IF e # 0 THEN e ELSE MatchAlternatives(pattern, a + 1, s, pos)

\* line.match(pattern) for a pattern without the g flag: the leftmost match,
\* with its 0-based start and match[0], or null (found = FALSE).
NoMatch == [found |-> FALSE]

RECURSIVE MatchFrom(_, _, _)
MatchFrom(pattern, s, pos) ==
  IF pos > Len(s) + 1 THEN NoMatch
  ELSE LET e == MatchAlternatives(pattern, 1, s, pos)
       IN IF e # 0
          THEN [found |-> TRUE, index |-> pos - 1, text |-> SubSeq(s, pos, e - 1)]
          ELSE MatchFrom(pattern, s, pos + 1)

Match(s, pattern) == MatchFrom(pattern, s, 1)

\* ------------------------------------------------------- detection patterns
\* /\.showModal\(\)|<dialog|HTMLDialogElement/i
PatDialog ==
  << LitI(<<".","s","h","o","w","M","o","d","a","l","(",")">>),
     LitI(<<"<","d","i","a","l","o","g">>),
     LitI(<<"H","T","M","L","D","i","a","l","o","g","E","l","e","m","e","n","t">>) >>

\* /\.at\s*\(\s*-?\d+\s*\)/
PatArrayAt ==
  << Lit(<<".","a","t">>)
       \o << Star(WhiteSpace), One({"("}), Star(WhiteSpace), Opt({"-"}),
             One(Digits), Star(Digits), Star(WhiteSpace), One({")"}) >> >>

\* /\?\./
PatOptionalChaining == << Lit(<<"?",".">>) >>

\* /\?\?/
PatNullishCoalescing == << Lit(<<"?","?">>) >>

\* /Temporal\./
PatTemporal == << Lit(<<"T","e","m","p","o","r","a","l",".">>) >>

\* /Object\.hasOwn\(/
PatObjectHasOwn ==
  << Lit(<<"O","b","j","e","c","t",".","h","a","s","O","w","n","(">>) >>

\* /@container|container-type:|container-name:/i
PatContainerQueries ==
  << LitI(<<"@","c","o","n","t","a","i","n","e","r">>),
     LitI(<<"c","o","n","t","a","i","n","e","r","-","t","y","p","e",":">>),
     LitI(<<"c","o","n","t","a","i","n","e","r","-","n","a","m","e",":">>) >>

\* /:has\(/i
PatCssHas == << LitI(<<":","h","a","s","(">>) >>

\* /&\s*[:{\.\#]/
PatCssNesting ==
  << << One({"&"}), Star(WhiteSpace), One({":", "{", ".", "#"}) >> >>

\* /fetch\s*\(/
PatFetch ==
  << Lit(<<"f","e","t","c","h">>) \o << Star(WhiteSpace), One({"("}) >> >>

\* A severity table that takes limited support for an error.
GetSeverityLimitedAsError(status) ==
  CASE status = "widely-available" -> "info"
    [] status = "newly-available" -> "warning"
    [] status = "limited" -> "error"
    [] status = "unsupported" -> "error"
    [] OTHER -> "info"

\* ---------------------------------------------------------------- severity
\* getSeverity of both analyzers: severityMap[status] || 'info'.
GetSeverity(status) ==
  CASE status = "widely-available" -> "info"
    [] status = "newly-available" -> "warning"
    [] status = "limited" -> "warning"
    [] status = "unsupported" -> "error"
    [] OTHER -> "info"

\* ------------------------------------------- BaselineAnalyzer: the catalog
\* One entry of the literal table.  baseline is the date as YYYYMMDD, 0
\* for null; polyfill and fallback are "" where the entry has none.  The
\* browsers and mdn fields are copied to the issue unread and left out.
Feature(id, pattern, name, status, baseline, polyfill, fallback) ==
  [id |-> id, pattern |-> pattern, name |-> name, status |-> status,
   baseline |-> baseline, polyfill |-> polyfill, fallback |-> fallback]

\* loadFeatureDatabase: the Map in insertion order.
LoadFeatureDatabase ==
  << Feature("dialog-api", PatDialog, "HTML Dialog API", "newly-available",
             20220314, "dialog-polyfill", "Modal div with ARIA attributes"),
     Feature("array-at", PatArrayAt, "Array.prototype.at()", "widely-available",
             20220115, "", "array[array.length - 1] or array.slice(-1)[0]"),
     Feature("optional-chaining", PatOptionalChaining, "Optional Chaining (?.)",
             "widely-available", 20200421, "", "Manual null/undefined checks"),
     Feature("nullish-coalescing", PatNullishCoalescing, "Nullish Coalescing (??)",
             "widely-available", 20200421, "",
             "value != null ? value : defaultValue"),
     Feature("temporal-api", PatTemporal, "Temporal API", "unsupported",
             0, "@js-temporal/polyfill", ""),
     Feature("object-hasown", PatObjectHasOwn, "Object.hasOwn()", "newly-available",
             20220115, "", "Object.prototype.hasOwnProperty.call()"),
     Feature("container-queries", PatContainerQueries, "CSS Container Queries",
             "newly-available", 20230214, "", "Media queries with JavaScript"),
     Feature("css-has", PatCssHas, "CSS :has() Selector", "newly-available",
             20231218, "", "JavaScript-based selection"),
     Feature("css-nesting", PatCssNesting, "CSS Nesting", "newly-available",
             20230328, "", "Sass/SCSS preprocessing"),
     Feature("fetch-api", PatFetch, "Fetch API", "widely-available",
             20170301, "", "XMLHttpRequest or axios library") >>

\* ----------------------------------- EnhancedBaselineAnalyzer: the catalog
\* webFeaturesData of loadWebFeaturesData, in the literal's key order.  A
\* date is YYYYMMDD; every entry of the literal has a baseline record.
WebFeature(key, name, group, low, high) ==
  [key |-> key, name |-> name, group |-> group,
   baseline |-> [present |-> TRUE, low_date |-> low, high_date |-> high]]

WebFeaturesData ==
  << WebFeature("dialog", "HTML Dialog Element", "html", 20220314, 20240914),
     WebFeature("array-at", "Array.prototype.at()", "javascript", 20220115, 20240715),
     WebFeature("optional-chaining", "Optional Chaining (?.)", "javascript",
                20200421, 20221021),
     WebFeature("container-queries", "CSS Container Queries", "css",
                20230214, 20250814),
     WebFeature("css-has", "CSS :has() Selector", "css", 20231218, 20260618) >>

\* A getBaselineStatus without its last return: neither date passed gives
\* undefined.
GetBaselineStatusNoDefault(baseline, clock) ==
  IF ~baseline.present THEN "unsupported"
  ELSE IF baseline.high_date <= clock THEN "widely-available"
  ELSE IF baseline.low_date <= clock THEN "newly-available"
  ELSE "undefined"

\* A getBaselineStatus that tests the low date before the high date.
GetBaselineStatusLowFirst(baseline, clock) ==
  IF ~baseline.present THEN "unsupported"
  ELSE IF baseline.low_date <= clock THEN "newly-available"
  ELSE IF baseline.high_date <= clock THEN "widely-available"
  ELSE "limited"

\* getBaselineStatus: the tier of a baseline record at the date now.
GetBaselineStatus(baseline, clock) ==
  IF ~baseline.present THEN "unsupported"
  ELSE IF baseline.high_date <= clock THEN "widely-available"
  ELSE IF baseline.low_date <= clock THEN "newly-available"
  ELSE "limited"

\* getDetectionPattern: patterns[key]; the keys of webFeaturesData are all
\* in the table, so the new RegExp(key, 'i') default is never taken.
GetDetectionPattern(key) ==
  CASE key = "dialog" -> PatDialog
    [] key = "array-at" -> PatArrayAt
    [] key = "optional-chaining" -> PatOptionalChaining
    [] key = "nullish-coalescing" -> PatNullishCoalescing
    [] key = "container-queries" -> PatContainerQueries
    [] key = "css-has" -> PatCssHas
    [] key = "css-nesting" -> PatCssNesting
    [] key = "object-hasown" -> PatObjectHasOwn
    [] key = "temporal-api" -> PatTemporal
    [] key = "fetch-api" -> PatFetch

\* getPolyfillInfo: polyfills[key] || null ("" stands for null).
GetPolyfillInfo(key) ==
  CASE key = "dialog" -> "dialog-polyfill"
    [] key = "array-at" -> "array-at-polyfill"
    [] key = "container-queries" -> "@container-query-polyfill/postcss"
    [] key = "css-has" -> "css-has-pseudo"
    [] OTHER -> ""

\* getFallbackInfo: fallbacks[key] || the default text.
GetFallbackInfo(key) ==
  CASE key = "dialog" -> "Modal div with ARIA attributes and focus management"
    [] key = "array-at" -> "array[array.length - 1] or array.slice(-1)[0]"
    [] key = "optional-chaining" -> "Manual null/undefined checks with &&"
    [] key = "container-queries" -> "Media queries with JavaScript ResizeObserver"
    [] key = "css-has" -> "JavaScript querySelector with event delegation"
    [] OTHER -> "Feature-specific implementation required"

\* normalizeFeatureData: the catalog entry of a webFeaturesData entry; its
\* status and severity are computed here, from the date of the call.
NormalizeFeatureData(webFeature, key, clock) ==
  LET baselineStatus == GetBaselineStatus(webFeature.baseline, clock)
  IN [id |-> key, name |-> webFeature.name,
      pattern |-> GetDetectionPattern(key),
      status |-> baselineStatus,
      baseline |-> IF webFeature.baseline.present
                   THEN webFeature.baseline.low_date ELSE 0,
      group |-> webFeature.group,
      severity |-> GetSeverity(baselineStatus),
      polyfill |-> GetPolyfillInfo(key),
      fallback |-> GetFallbackInfo(key)]

\* loadWebFeaturesData: this.features.set(key, ...) for each entry, on the
\* Map fs (keys of the literal are distinct and fs is empty when it runs).
LoadWebFeaturesData(fs, clock) ==
  fs \o [i \in 1..Len(WebFeaturesData) |->
           NormalizeFeatureData(WebFeaturesData[i], WebFeaturesData[i].key, clock)]

\* A Map from feature key to a record is a function on the keys it holds.
EmptyMap == [k \in {} |-> TRUE]

\* map.get(id): the value, or undefined.
Undefined == [defined |-> FALSE]

MapGet(map, id) ==
  IF id \in DOMAIN map THEN [defined |-> TRUE, value |-> map[id]] ELSE Undefined

\* loadWebPlatformDashboardData: usage_stats.percentage in tenths of a
\* percent (12.5 is 125), and the trend.
LoadWebPlatformDashboardData ==
  [k \in {"dialog", "array-at", "optional-chaining"} |->
     CASE k = "dialog" -> [percentage |-> 125, trend |-> "increasing"]
       [] k = "array-at" -> [percentage |-> 357, trend |-> "stable"]
       [] k = "optional-chaining" -> [percentage |-> 782, trend |-> "stable"]]

\* loadPerformanceData: impact, bundle_size and polyfill_size as written.
LoadPerformanceData ==
  [k \in {"dialog", "array-at", "optional-chaining", "container-queries", "css-has"} |->
     CASE k = "dialog" ->
            [impact |-> "minimal", bundle_size |-> <<"+","2","K","B">>,
             polyfill_size |-> <<"8","K","B">>]
       [] k = "array-at" ->
            [impact |-> "minimal", bundle_size |-> <<"0","K","B">>,
             polyfill_size |-> <<"1","K","B">>]
       [] k = "optional-chaining" ->
            [impact |-> "positive", bundle_size |-> <<"0","K","B">>,
             polyfill_size |-> <<"3","K","B">>]
       [] k = "container-queries" ->
            [impact |-> "moderate", bundle_size |-> <<"+","5","K","B">>,
             polyfill_size |-> <<"1","5","K","B">>]
       [] k = "css-has" ->
            [impact |-> "moderate", bundle_size |-> <<"+","3","K","B">>,
             polyfill_size |-> <<"1","2","K","B">>]]

\* loadCommunityData: votes, and the rating in tenths (4.2 is 42).
LoadCommunityData ==
  [k \in {"dialog", "array-at", "optional-chaining"} |->
     CASE k = "dialog" -> [votes |-> 156, rating |-> 42]
       [] k = "array-at" -> [votes |-> 342, rating |-> 47]
       [] k = "optional-chaining" -> [votes |-> 1247, rating |-> 49]]

\* ------------------------------------------------- scoring, both analyzers
\* n points in the unit of the scores (tenths of a point).
Points(n) == n * 10

Min(a, b) == IF a <= b THEN a ELSE b

Max(a, b) == IF a >= b THEN a ELSE b

\* Base scores with 10 for an error instead of 15.
BaseScoreErrorTen(severity) ==
  CASE severity = "error" -> Points(10)
    [] severity = "warning" -> Points(5)
    [] severity = "info" -> Points(1)
    [] OTHER -> 0

\* The switch on result.severity of both risk scores.
BaseScore(severity) ==
  CASE severity = "error" -> Points(15)
    [] severity = "warning" -> Points(5)
    [] severity = "info" -> Points(1)
    [] OTHER -> 0

\* Risk levels with strict comparisons (score > 40, score > 15).
GetRiskLevelStrict(score) ==
  IF score > Points(40) THEN "high"
  ELSE IF score > Points(15) THEN "medium"
  ELSE "low"

\* getRiskLevel
GetRiskLevel(score) ==
  IF score >= Points(40) THEN "high"
  ELSE IF score >= Points(15) THEN "medium"
  ELSE "low"

\* A breakdown that starts from { error: 0, warning: 0, info: 0 } instead of
\* the empty object.
GroupBySeverityAllKeys(results) ==
  [s \in {"error", "warning", "info"} |->
     Cardinality({i \in 1..Len(results) : results[i].severity = s})]

\* groupBySeverity: an object with one key per severity that occurs.
GroupBySeverity(results) ==
  [s \in {results[i].severity : i \in 1..Len(results)} |->
     Cardinality({i \in 1..Len(results) : results[i].severity = s})]

\* results.filter(r => r.severity === s).length
CountSeverity(results, s) ==
  Cardinality({i \in 1..Len(results) : results[i].severity = s})

\* Math.max(0, 100 - riskScore)
CompatibilityScore(riskScore) == Max(0, Points(100) - riskScore)

\* ------------------------------------------------------- BaselineAnalyzer
\* calculateRiskScore: the sum of the base scores, capped at 100.
RECURSIVE SumBaseScores(_, _)
SumBaseScores(results, i) ==
  IF i > Len(results) THEN 0
  ELSE BaseScore(results[i].severity) + SumBaseScores(results, i + 1)

\* A risk score without Math.min(100, ...).
CalculateRiskScoreUncapped(results) == SumBaseScores(results, 1)

\* A risk score that counts down from 100 (the compatibility, returned as
\* the risk).
CalculateRiskScoreInverted(results) ==
  Max(0, Points(100) - SumBaseScores(results, 1))

CalculateRiskScore(results) == Min(Points(100), SumBaseScores(results, 1))

\* generateSuggestions: the rules in the order they are pushed; a message
\* is kept as its rule's type and the count it prints.
GenerateSuggestions(results) ==
  LET errorCount == CountSeverity(results, "error")
      warningCount == CountSeverity(results, "warning")
      hasPolyfills == Cardinality({i \in 1..Len(results) : results[i].polyfill # ""})
  IN (IF errorCount > 0 THEN <<[type |-> "error", count |-> errorCount]>> ELSE <<>>)
     \o (IF warningCount > 2
         THEN <<[type |-> "warning", count |-> warningCount]>> ELSE <<>>)
     \o (IF hasPolyfills > 0 THEN <<[type |-> "fix", count |-> hasPolyfills]>> ELSE <<>>)

\* enrichResults
EnrichResults(results, code, clock) ==
  LET riskScore == CalculateRiskScore(results)
  IN [summary |-> [total |-> Len(results),
                   riskScore |-> riskScore,
                   riskLevel |-> GetRiskLevel(riskScore),
                   breakdown |-> GroupBySeverity(results),
                   compatibilityScore |-> CompatibilityScore(riskScore)],
      issues |-> results,
      suggestions |-> GenerateSuggestions(results),
      metadata |-> [analyzedAt |-> clock,
                    linesOfCode |-> Len(Split(code)),
                    charactersCount |-> Len(code)]]

\* A pushed object whose column is taken in the trimmed line.
IssueColumnInTrimmedLine(feature, line, lineIndex, match) ==
  [id |-> feature.id,
   feature |-> feature.name,
   line |-> lineIndex + 1,
   column |-> IndexOf(Trim(line), match.text) + 1,
   code |-> Trim(line),
   status |-> feature.status,
   baseline |-> feature.baseline,
   polyfill |-> feature.polyfill,
   fallback |-> feature.fallback,
   severity |-> GetSeverity(feature.status),
   matchedText |-> match.text]

\* The object pushed for a line that matches (analyzeCode, lines 126-140).
Issue(feature, line, lineIndex, match) ==
  [id |-> feature.id,
   feature |-> feature.name,
   line |-> lineIndex + 1,
   column |-> IndexOf(line, match.text) + 1,
   code |-> Trim(line),
   status |-> feature.status,
   baseline |-> feature.baseline,
   polyfill |-> feature.polyfill,
   fallback |-> feature.fallback,
   severity |-> GetSeverity(feature.status),
   matchedText |-> match.text]

\* A scan that stops one line early (lineIndex < lines.length - 1).
ScanLinesSkippingLast(feature, lines) ==
  LET matching == SelectSeq([i \in 1..(Len(lines) - 1) |-> i - 1],
                            LAMBDA lineIndex :
                              Match(lines[lineIndex + 1], feature.pattern).found)
  IN [k \in 1..Len(matching) |->
        Issue(feature, lines[matching[k] + 1], matching[k],
              Match(lines[matching[k] + 1], feature.pattern))]

\* A scan without the if (match) guard: every line pushes an object, with
\* an empty matched text where the pattern does not occur.
ScanLinesUnguarded(feature, lines) ==
  [k \in 1..Len(lines) |->
     Issue(feature, lines[k], k - 1,
           IF Match(lines[k], feature.pattern).found
           THEN Match(lines[k], feature.pattern)
           ELSE [found |-> TRUE, index |-> 0, text |-> <<>>])]

\* lines.forEach of analyzeCode for one feature: the objects it pushes, in
\* line order (lineIndex is 0-based).
ScanLines(feature, lines) ==
  LET matching == SelectSeq([i \in 1..Len(lines) |-> i - 1],
                            LAMBDA lineIndex :
                              Match(lines[lineIndex + 1], feature.pattern).found)
  IN [k \in 1..Len(matching) |->
        Issue(feature, lines[matching[k] + 1], matching[k],
              Match(lines[matching[k] + 1], feature.pattern))]

\* A scan with the loops the other way round (lines outside, features
\* inside): the objects in line order, then catalog order.
ScanFeaturesByLine(fs, k, lines) ==
  LET hits == {p \in (1..Len(lines)) \X (k..Len(fs)) :
                 Match(lines[p[1]], fs[p[2]].pattern).found}
      Before(p, q) == p[1] < q[1] \/ (p[1] = q[1] /\ p[2] < q[2])
      At(r) == CHOOSE p \in hits : Cardinality({q \in hits : Before(q, p)}) = r - 1
  IN [r \in 1..Cardinality(hits) |->
        Issue(fs[At(r)[2]], lines[At(r)[1]], At(r)[1] - 1,
              Match(lines[At(r)[1]], fs[At(r)[2]].pattern))]

\* this.features.forEach of analyzeCode from the k-th entry on: what is
\* pushed to results, in Map order.
RECURSIVE ScanFeatures(_, _, _)
ScanFeatures(fs, k, lines) ==
  IF k > Len(fs) THEN <<>>
  ELSE ScanLines(fs[k], lines) \o ScanFeatures(fs, k + 1, lines)

\* analyzeCode of BaselineAnalyzer on the catalog fs.
AnalyzeCode(fs, code, clock) ==
  EnrichResults(ScanFeatures(fs, 1, Split(code)), code, clock)

\* ----------------------------------------------- EnhancedBaselineAnalyzer
\* parseInt of a run of decimal digits.
DigitValue(c) ==
  CASE c = "0" -> 0 [] c = "1" -> 1 [] c = "2" -> 2 [] c = "3" -> 3 [] c = "4" -> 4
    [] c = "5" -> 5 [] c = "6" -> 6 [] c = "7" -> 7 [] c = "8" -> 8 [] c = "9" -> 9

RECURSIVE ParseInt(_)
ParseInt(ds) ==
  IF ds = <<>> THEN 0
  ELSE 10 * ParseInt(SubSeq(ds, 1, Len(ds) - 1)) + DigitValue(ds[Len(ds)])

\* /\+?(\d+)KB/ and /(\d+)KB/
PatBundleSize ==
  << << Opt({"+"}), One(Digits), Star(Digits), One({"K"}), One({"B"}) >> >>

PatPolyfillSize == << << One(Digits), Star(Digits), One({"K"}), One({"B"}) >> >>

\* The digits captured by (\d+) in a match of one of the two size patterns.
SizeDigits(text) ==
  LET from == IF text[1] = "+" THEN 2 ELSE 1
  IN SubSeq(text, from, Len(text) - 2)

\* The multiplier of calculateAdvancedRiskScore in tenths: 1.5 below 20 %
\* usage, 0.8 above 60 %, else 1.0.
UsageMultiplier(usage) ==
  IF usage.value.percentage < 200 THEN 15
  ELSE IF usage.value.percentage > 600 THEN 8
  ELSE 10

\* One turn of the forEach of calculateAdvancedRiskScore: the amount added
\* to score for result.
AdvancedScoreOf(result) ==
  IF result.usage.defined
  THEN (BaseScore(result.severity) * UsageMultiplier(result.usage)) \div 10
  ELSE BaseScore(result.severity)

RECURSIVE SumAdvancedScores(_, _)
SumAdvancedScores(results, i) ==
  IF i > Len(results) THEN 0
  ELSE AdvancedScoreOf(results[i]) + SumAdvancedScores(results, i + 1)

CalculateAdvancedRiskScore(results) ==
  Min(Points(100), SumAdvancedScores(results, 1))

\* calculatePerformanceImpact: what the forEach adds to totalBundleSize
\* from result i on.
RECURSIVE TotalBundleSize(_, _)
TotalBundleSize(results, i) ==
  IF i > Len(results) THEN 0
  ELSE LET sizeMatch == IF results[i].performance.defined
                        THEN Match(results[i].performance.value.bundle_size,
                                   PatBundleSize)
                        ELSE NoMatch
       IN (IF sizeMatch.found THEN ParseInt(SizeDigits(sizeMatch.text)) ELSE 0)
          + TotalBundleSize(results, i + 1)

\* overallImpact after the forEach has handled the first i results.
RECURSIVE OverallImpact(_, _)
OverallImpact(results, i) ==
  IF i = 0 THEN "minimal"
  ELSE LET overallImpact == OverallImpact(results, i - 1)
           p == results[i].performance
       IN IF ~p.defined THEN overallImpact
          ELSE IF p.value.impact = "moderate" /\ overallImpact = "minimal"
               THEN "moderate"
          ELSE IF p.value.impact = "high" THEN "high"
          ELSE overallImpact

CalculatePerformanceImpact(results) ==
  LET totalBundleSize == TotalBundleSize(results, 1)
  IN [bundleSize |-> totalBundleSize,
      impact |-> OverallImpact(results, Len(results)),
      recommendation |-> IF totalBundleSize > 20 THEN "Consider lazy loading"
                         ELSE "Acceptable overhead"]

\* calculateAdoptionScore.  A result with community data adds
\* (rating / 5) * 100 * (votes / 1000 + 0.1), votes capped at 1000, which is
\* rating10 * (votes + 100) / 500 with the rating in tenths; one without
\* adds 70 = 35000 / 500.  The sum is kept as its numerator over 500.
RECURSIVE AdoptionNumerator(_, _)
AdoptionNumerator(results, i) ==
  IF i > Len(results) THEN 0
  ELSE (IF results[i].community.defined
        THEN results[i].community.value.rating
               * (Min(results[i].community.value.votes, 1000) + 100)
        ELSE 35000)
       + AdoptionNumerator(results, i + 1)

\* Math.round(totalScore / results.length)
CalculateAdoptionScore(results) ==
  IF Len(results) = 0 THEN 100
  ELSE (2 * AdoptionNumerator(results, 1) + 500 * Len(results))
         \div (1000 * Len(results))

\* generateAdvancedSuggestions
RECURSIVE TotalPolyfillSize(_, _)
TotalPolyfillSize(results, i) ==
  IF i > Len(results) THEN 0
  ELSE LET m == IF results[i].performance.defined
                THEN Match(results[i].performance.value.polyfill_size,
                           PatPolyfillSize)
                ELSE NoMatch
       IN (IF m.found THEN ParseInt(SizeDigits(m.text)) ELSE 0)
          + TotalPolyfillSize(results, i + 1)

GenerateAdvancedSuggestions(results) ==
  LET totalPolyfillSize == TotalPolyfillSize(results, 1)
      lowRatedFeatures ==
        Cardinality({i \in 1..Len(results) :
                       /\ results[i].community.defined
                       /\ results[i].community.value.rating < 35})
      decliningFeatures ==
        Cardinality({i \in 1..Len(results) :
                       /\ results[i].usage.defined
                       /\ results[i].usage.value.trend = "decreasing"})
  IN (IF totalPolyfillSize > 30
      THEN <<[type |-> "performance", count |-> totalPolyfillSize]>> ELSE <<>>)
     \o (IF lowRatedFeatures > 0
         THEN <<[type |-> "community", count |-> lowRatedFeatures]>> ELSE <<>>)
     \o (IF decliningFeatures > 0
         THEN <<[type |-> "trend", count |-> decliningFeatures]>> ELSE <<>>)

\* The fields of an analyzer instance that analyzeCode reads.
Instance(fs, usage, perf, community, loaded) ==
  [features |-> fs, webPlatformData |-> usage, performanceData |-> perf,
   communityData |-> community, isDataLoaded |-> loaded]

\* enrichResults of the enhanced analyzer.
EnhancedEnrichResults(self, results, code, clock) ==
  LET riskScore == CalculateAdvancedRiskScore(results)
  IN [summary |-> [total |-> Len(results),
                   riskScore |-> riskScore,
                   riskLevel |-> GetRiskLevel(riskScore),
                   breakdown |-> GroupBySeverity(results),
                   compatibilityScore |-> CompatibilityScore(riskScore),
                   performanceImpact |-> CalculatePerformanceImpact(results),
                   adoptionScore |-> CalculateAdoptionScore(results)],
      issues |-> results,
      suggestions |-> GenerateAdvancedSuggestions(results),
      metadata |-> [analyzedAt |-> clock,
                    linesOfCode |-> Len(Split(code)),
                    charactersCount |-> Len(code),
                    officialData |-> self.isDataLoaded]]

\* The object pushed for a line that matches (analyzeCode, lines 1170-1192).
EnhancedIssue(self, feature, line, lineIndex, match) ==
  [id |-> feature.id,
   feature |-> feature.name,
   line |-> lineIndex + 1,
   column |-> IndexOf(line, match.text) + 1,
   code |-> Trim(line),
   status |-> feature.status,
   baseline |-> feature.baseline,
   polyfill |-> feature.polyfill,
   fallback |-> feature.fallback,
   group |-> feature.group,
   severity |-> feature.severity,
   matchedText |-> match.text,
   usage |-> MapGet(self.webPlatformData, feature.id),
   performance |-> MapGet(self.performanceData, feature.id),
   community |-> MapGet(self.communityData, feature.id)]

EnhancedScanLines(self, feature, lines) ==
  LET matching == SelectSeq([i \in 1..Len(lines) |-> i - 1],
                            LAMBDA lineIndex :
                              Match(lines[lineIndex + 1], feature.pattern).found)
  IN [k \in 1..Len(matching) |->
        EnhancedIssue(self, feature, lines[matching[k] + 1], matching[k],
                      Match(lines[matching[k] + 1], feature.pattern))]

RECURSIVE EnhancedScanFeatures(_, _, _)
EnhancedScanFeatures(self, k, lines) ==
  IF k > Len(self.features) THEN <<>>
  ELSE EnhancedScanLines(self, self.features[k], lines)
         \o EnhancedScanFeatures(self, k + 1, lines)

\* analyzeCode of the enhanced analyzer from line 1163 on (after the wait).
EnhancedAnalyzeCode(self, code, clock) ==
  EnhancedEnrichResults(self,
    EnhancedScanFeatures(self, 1, Split(code)), code, clock)

\* ------------------------------------------------------------------ inputs
\* The lines texts are built from:
\*   1  const x = a?.b ?? 'y';     optional chaining and nullish coalescing
\*   2  .card:has(img){}           the CSS :has() selector
\*   3    Temporal.Now             the Temporal API, after two blanks
\*   4  el?.at(-1)?.showModal()    optional chaining twice, at(), showModal()
\*   5  x=1                        no feature
SampleLines ==
  << <<"c","o","n","s","t"," ","x"," ","="," ","a","?",".","b"," ","?","?"," ",
       "'","y","'",";">>,
     <<".","c","a","r","d",":","h","a","s","(","i","m","g",")","{","}">>,
     <<" "," ","T","e","m","p","o","r","a","l",".","N","o","w">>,
     <<"e","l","?",".","a","t","(","-","1",")","?",".","s","h","o","w","M","o",
       "d","a","l","(",")">>,
     <<"x","=","1">> >>

LineSet == {SampleLines[i] : i \in 1..Len(SampleLines)}

\* The dates at which the clock is read, as YYYYMMDD: between the low and
\* high dates of the catalog, and after all of them.
Clocks == <<20230601, 20250101, 20261105>>

ClockSet == {Clocks[i] : i \in 1..Len(Clocks)}

\* ------------------------------------------------------------------- state
VARIABLES
  now,              \* the current date (new Date())
  code,             \* the text the caller holds and passes to analyzeCode
  result,           \* what analyzeCode returned for code (NoResult: not called);
                    \*   others: the calls still waiting when it returned
  probe,            \* an earlier returned result the caller kept
  baseFeatures,     \* BaselineAnalyzer: this.features
  features,         \* EnhancedBaselineAnalyzer: this.features
  webPlatformData,  \*   this.webPlatformData
  performanceData,  \*   this.performanceData
  communityData,    \*   this.communityData
  isDataLoaded,     \*   this.isDataLoaded
  loaders,          \*   the promise of each of the four loaders
  loadState,        \*   the promise loadOfficialData returned
  calls,            \*   analyzeCode calls waiting on their 100 ms timer
  reply,            \* what the last community operation returned
  timeout,          \* VS Code extension: the debounce timer of activate
  ext,              \*   the open documents and their diagnostics
  ui,               \* web UI: the page of BaselineCopilotApp and its timers
  cli               \* CLI: the command that runs and its exit status

\* What the hosts of the analyzers hold: the editor extension, the web page
\* and the command line.
hostVars == <<timeout, ext, ui, cli>>

vars ==
  <<now, code, result, probe, baseFeatures, features, webPlatformData,
    performanceData, communityData, isDataLoaded, loaders, loadState, calls,
    reply, hostVars>>

baseVars == <<baseFeatures>>

enhancedVars ==
  <<features, webPlatformData, performanceData, communityData, isDataLoaded,
    loaders, loadState>>

Loaders ==
  {"loadWebFeaturesData", "loadWebPlatformDashboardData",
   "loadPerformanceData", "loadCommunityData"}

NoResult == [analyzer |-> "none"]

NoReply == [op |-> "none"]

NoProbe == [kept |-> NoResult, later |-> 0, other |-> FALSE]

\* The kept result after one more analyzeCode call, on the text c: other
\* says whether a call since was on another text than the kept one's.
OneCallLater(p, c) ==
  IF p.kept = NoResult THEN p
  ELSE [p EXCEPT !.later = Min(@ + 1, MaxLater),
                 !.other = @ \/ c # p.kept.code]

\* The enhanced analyzer as analyzeCode sees it.
Self ==
  Instance(features, webPlatformData, performanceData, communityData, isDataLoaded)

Lines == Split(code)

\* ------------------------------------------------------- the caller's text
\* The first line is typed into the empty text.  A changed text has no
\* result yet.
TypeLine(l) ==
  /\ code = <<>>
  /\ code' = l
  /\ result' = NoResult
  /\ UNCHANGED <<hostVars, now, probe, baseVars, enhancedVars, calls, reply>>

\* A line feed and the line l are appended.  Texts grow to MaxLines lines,
\* and to MaxRepeat lines when every line is l.
AppendLine(l) ==
  /\ \/ Len(Lines) < MaxLines
     \/ /\ Len(Lines) < MaxRepeat
        /\ \A i \in 1..Len(Lines) : Lines[i] = l
  /\ code' = code \o <<LF>> \o l
  /\ result' = NoResult
  /\ UNCHANGED <<hostVars, now, probe, baseVars, enhancedVars, calls, reply>>

\* The caller starts over with the empty text.
Clear ==
  /\ code # <<>>
  /\ code' = <<>>
  /\ result' = NoResult
  /\ UNCHANGED <<hostVars, now, probe, baseVars, enhancedVars, calls, reply>>

\* The caller keeps the result of a call for later; later counts the
\* analyzeCode calls made since, up to MaxLater.
Remember ==
  /\ result # NoResult
  /\ probe' = [kept |-> result, later |-> 0, other |-> FALSE]
  /\ probe' # probe
  /\ UNCHANGED <<hostVars, now, code, result, baseVars, enhancedVars, calls, reply>>

\* Time passes.
Tick ==
  /\ \E i \in 1..(Len(Clocks) - 1) : now = Clocks[i] /\ now' = Clocks[i + 1]
  /\ UNCHANGED <<hostVars, code, result, probe, baseVars, enhancedVars, calls, reply>>

\* An analyzeCode whose results array is a field that outlives the call:
\* the objects of the previous call on the same text are still in it.
AnalyzeBaseKeepingResults ==
  /\ result' = [analyzer |-> "base", code |-> code,
                value |-> EnrichResults(
                  (IF result.analyzer = "base" THEN result.value.issues ELSE <<>>)
                    \o ScanFeatures(baseFeatures, 1, Split(code)), code, now)]
  /\ probe' = OneCallLater(probe, code)
  /\ UNCHANGED <<hostVars, now, code, baseVars, enhancedVars, calls, reply>>

\* ------------------------------------------------------- BaselineAnalyzer
\* analyzer.analyzeCode(code): synchronous.
AnalyzeBase ==
  /\ result' = [analyzer |-> "base", code |-> code,
                value |-> AnalyzeCode(baseFeatures, code, now)]
  /\ probe' = OneCallLater(probe, code)
  /\ UNCHANGED <<hostVars, now, code, baseVars, enhancedVars, calls, reply>>

\* ----------------------------------------------- EnhancedBaselineAnalyzer
\* Promise.all of the four loaders: rejected as soon as one is, fulfilled
\* when all are.
PromiseAllRejected == \E l \in Loaders : loaders[l] = "rejected"

PromiseAllFulfilled == \A l \in Loaders : loaders[l] = "fulfilled"

\* A loader's data arrives: its forEach fills the analyzer's Map.
LoaderFulfil(l) ==
  /\ loaders[l] = "pending"
  /\ loaders' = [loaders EXCEPT ![l] = "fulfilled"]
  /\ features' = IF l = "loadWebFeaturesData"
                 THEN LoadWebFeaturesData(features, now) ELSE features
  /\ webPlatformData' = IF l = "loadWebPlatformDashboardData"
                        THEN LoadWebPlatformDashboardData ELSE webPlatformData
  /\ performanceData' = IF l = "loadPerformanceData"
                        THEN LoadPerformanceData ELSE performanceData
  /\ communityData' = IF l = "loadCommunityData"
                      THEN LoadCommunityData ELSE communityData
  /\ UNCHANGED <<hostVars, now, code, result, probe, baseVars, isDataLoaded, loadState, calls, reply>>

\* A loader fails: its promise rejects and its Map stays as it is.
LoaderReject(l) ==
  /\ loaders[l] = "pending"
  /\ loaders' = [loaders EXCEPT ![l] = "rejected"]
  /\ UNCHANGED <<hostVars, now, code, result, probe, baseVars, features, webPlatformData,
                 performanceData, communityData, isDataLoaded, loadState, calls, reply>>

\* loadLocalFeatureDatabase: logs, and leaves this.features as it is.
LoadLocalFeatureDatabase(fs) == fs

\* A loadOfficialData without its catch block: the rejection of Promise.all
\* rejects the promise of loadOfficialData and isDataLoaded stays false.
LoadOfficialDataRethrow(fs) ==
  [features |-> fs, isDataLoaded |-> FALSE, promise |-> "rejected"]

\* The catch block of loadOfficialData: what it leaves in this.features and
\* this.isDataLoaded, and how the promise of loadOfficialData settles.
LoadOfficialDataCatch(fs) ==
  [features |-> LoadLocalFeatureDatabase(fs), isDataLoaded |-> TRUE,
   promise |-> "fulfilled"]

\* loadOfficialData resumes after await Promise.all(...): line 812.
LoadOfficialDataThen ==
  /\ loadState = "awaiting"
  /\ PromiseAllFulfilled
  /\ isDataLoaded' = TRUE
  /\ loadState' = "fulfilled"
  /\ UNCHANGED <<hostVars, now, code, result, probe, baseVars, features, webPlatformData,
                 performanceData, communityData, loaders, calls, reply>>

\* loadOfficialData resumes in its catch block: lines 814-818.
LoadOfficialDataFail ==
  /\ loadState = "awaiting"
  /\ PromiseAllRejected
  /\ features' = LoadOfficialDataCatch(features).features
  /\ isDataLoaded' = LoadOfficialDataCatch(features).isDataLoaded
  /\ loadState' = LoadOfficialDataCatch(features).promise
  /\ UNCHANGED <<hostVars, now, code, result, probe, baseVars, webPlatformData,
                 performanceData, communityData, loaders, calls, reply>>

\* A continuation of loadOfficialData is queued as a microtask: it runs
\* before any timer callback.
MicrotaskReady ==
  loadState = "awaiting" /\ (PromiseAllFulfilled \/ PromiseAllRejected)

\* Whether analyzeCode, called now, goes on without waiting (line 1159).
DataReady(loaded) == loaded

\* analyzeCode is called and isDataLoaded is true: no wait.
AnalyzeEnhanced ==
  /\ DataReady(isDataLoaded)
  /\ result' = [analyzer |-> "enhanced", code |-> code,
                value |-> EnhancedAnalyzeCode(Self, code, now),
                others |-> calls]
  /\ probe' = OneCallLater(probe, code)
  /\ UNCHANGED <<hostVars, now, code, baseVars, enhancedVars, calls, reply>>

\* A wait written as a loop, while (!this.isDataLoaded): the call goes on
\* only once the data is loaded.
ProceedsOnlyWhenLoaded(loaded) == loaded

\* Whether a call whose 100 ms timer has fired goes on to the analysis: the
\* wait is an if, not a loop, so it does whatever isDataLoaded is.
ProceedsAfterWait(loaded) == TRUE

\* analyzeCode is called and isDataLoaded is false: it sets a 100 ms timer
\* and waits for it.
AnalyzeEnhancedWait ==
  /\ ~DataReady(isDataLoaded)
  /\ Len(calls) < MaxCalls
  /\ calls' = Append(calls, [code |-> code])
  /\ UNCHANGED <<hostVars, now, code, result, probe, baseVars, enhancedVars, reply>>

\* An analyzeCode that keeps its text in a field of the instance: after the
\* wait it analyzes the text of the latest call, not its own.
AnalyzeEnhancedResumeSharedText ==
  /\ calls # <<>>
  /\ ~MicrotaskReady
  /\ result' = [analyzer |-> "enhanced", code |-> Head(calls).code,
                value |-> EnhancedAnalyzeCode(Self, code, now),
                others |-> Tail(calls)]
  /\ calls' = Tail(calls)
  /\ probe' = OneCallLater(probe, Head(calls).code)
  /\ UNCHANGED <<hostVars, now, code, baseVars, enhancedVars, reply>>

\* The timer of the oldest waiting call fires: the call goes on from line
\* 1163, whatever isDataLoaded is by now.
AnalyzeEnhancedResume ==
  /\ calls # <<>>
  /\ ~MicrotaskReady
  /\ ProceedsAfterWait(isDataLoaded)
  /\ result' = [analyzer |-> "enhanced", code |-> Head(calls).code,
                value |-> EnhancedAnalyzeCode(Self, Head(calls).code, now),
                others |-> Tail(calls)]
  /\ calls' = Tail(calls)
  /\ probe' = OneCallLater(probe, Head(calls).code)
  /\ UNCHANGED <<hostVars, now, code, baseVars, enhancedVars, reply>>

\* The part of AnalyzeEnhancedResume that the event loop schedules: the
\* 100 ms timer of the oldest waiting call fires and the call leaves the
\* wait.
TimerFires ==
  /\ calls # <<>>
  /\ ~MicrotaskReady
  /\ ProceedsAfterWait(isDataLoaded)
  /\ calls' = Tail(calls)

\* ------------------------------------------------ the community operations
\* The feature ids and votes the community operations are called with.
FeatureIds == {"dialog", "css-has"}

Votes == {"up", "down"}

\* submitFeatureRequest(featureData): logs, returns success and Date.now().
SubmitFeatureRequest(featureData) ==
  /\ reply' = [op |-> "submitFeatureRequest", success |-> TRUE, id |-> now]
  /\ UNCHANGED <<hostVars, now, code, result, probe, baseVars, enhancedVars, calls>>

\* A voteOnFeature that counts the vote in the community table.
VoteOnFeatureCounting(featureId, vote) ==
  /\ reply' = [op |-> "voteOnFeature", success |-> TRUE]
  /\ communityData' =
       IF featureId \in DOMAIN communityData
       THEN [communityData EXCEPT ![featureId].votes = @ + 1]
       ELSE communityData
  /\ UNCHANGED <<hostVars, now, code, result, probe, baseVars, features, webPlatformData,
                 performanceData, isDataLoaded, loaders, loadState, calls>>

\* voteOnFeature(featureId, vote): logs, returns success.
VoteOnFeature(featureId, vote) ==
  /\ reply' = [op |-> "voteOnFeature", success |-> TRUE]
  /\ UNCHANGED <<hostVars, now, code, result, probe, baseVars, enhancedVars, calls>>

\* getTopRequestedFeatures(): returns its literal list.
GetTopRequestedFeatures ==
  /\ reply' = [op |-> "getTopRequestedFeatures",
               value |-> << [name |-> "CSS Anchor Positioning", votes |-> 234,
                             status |-> "experimental"],
                            [name |-> "Array.prototype.groupBy()", votes |-> 187,
                             status |-> "stage3"],
                            [name |-> "CSS View Transitions", votes |-> 156,
                             status |-> "limited"] >>]
  /\ UNCHANGED <<hostVars, now, code, result, probe, baseVars, enhancedVars, calls>>

\* ------------------------------------------------- the VS Code extension
\* The open documents, their languageId, and the texts a change gives them.
Documents == {"a.js", "b.css"}

LanguageId(document) == IF document = "a.js" THEN "javascript" ELSE "css"

SupportedLanguages == {"javascript", "typescript", "css", "html", "jsx", "tsx"}

DocumentTexts == {SampleLines[2], SampleLines[4], SampleLines[5]}

\* getSeverity of the extension: the DiagnosticSeverity of a severity.
GetDiagnosticSeverity(severity) ==
  CASE severity = "error" -> "Error"
    [] severity = "warning" -> "Warning"
    [] severity = "info" -> "Information"
    [] OTHER -> "Hint"

\* issue.status.replace('-', ' ')
StatusText(status) ==
  CASE status = "widely-available" -> "widely available"
    [] status = "newly-available" -> "newly available"
    [] OTHER -> status

\* The Diagnostic that analyzeDocument builds for one issue (the related
\* information, which repeats the range, is left out).
Diagnostic(issue) ==
  [range |-> [line |-> issue.line - 1,
              start |-> issue.column - 1,
              end |-> issue.column - 1 + Len(issue.matchedText)],
   message |-> <<issue.feature, StatusText(issue.status)>>,
   severity |-> GetDiagnosticSeverity(issue.severity),
   code |-> issue.id,
   source |-> "baseline-copilot"]

\* The array passed to diagnosticCollection.set, with the text it was
\* computed from.
Diagnostics(text, analysis) ==
  [set |-> TRUE, code |-> text,
   items |-> [k \in 1..Len(analysis.issues) |-> Diagnostic(analysis.issues[k])]]

NoDiagnostics == [set |-> FALSE]

NoTimer == [set |-> FALSE]

\* The extension after activate, before the analysis of the active editor:
\* each document holds a text without features, nothing is stored for it
\* and no call was started for it.  unanalyzed are the documents changed
\* since the last analyzeDocument call for them, events counts the user's
\* events.
ExtInit ==
  [documents |-> [d \in Documents |-> SampleLines[5]],
   diagnostics |-> [d \in Documents |-> NoDiagnostics],
   latest |-> [d \in Documents |-> [started |-> FALSE]],
   unanalyzed |-> {},
   events |-> 0]

\* analyzeDocument(document) up to its await: the text is read, and
\* analyzer.analyzeCode either goes on at once (e is the extension's state
\* when the call starts) or waits on its 100 ms timer.
AnalyzeDocumentCanStart == DataReady(isDataLoaded) \/ Len(calls) < MaxCalls

AnalyzeDocument(document, e) ==
  IF LanguageId(document) \notin SupportedLanguages
  THEN ext' = e /\ calls' = calls
  ELSE LET started == [e EXCEPT !.latest[document] =
                                   [started |-> TRUE, code |-> e.documents[document]],
                                !.unanalyzed = @ \ {document}]
       IN IF DataReady(isDataLoaded)
          THEN /\ ext' = [started EXCEPT !.diagnostics[document] =
                            Diagnostics(e.documents[document],
                                        EnhancedAnalyzeCode(Self, e.documents[document], now))]
               /\ calls' = calls
          ELSE /\ Len(calls) < MaxCalls
               /\ calls' = Append(calls, [code |-> e.documents[document],
                                          document |-> document])
               /\ ext' = started

\* onDidChangeTextDocument: the one timer is cleared and set again, for the
\* document of this event.  Timers fire in the order they fall due: the
\* 100 ms timers of the calls waiting now (behind) fire before this one.
OnDidChangeTextDocument(document, text) ==
  /\ ext.events < MaxEvents
  /\ text # ext.documents[document]
  /\ ext' = [ext EXCEPT !.documents[document] = text,
                        !.unanalyzed = @ \cup {document},
                        !.events = @ + 1]
  /\ timeout' = [set |-> TRUE, document |-> document, behind |-> Len(calls)]
  /\ UNCHANGED <<ui, cli, now, code, result, probe, baseVars, enhancedVars, calls, reply>>

\* The part of OnDebounceTimeout that the event loop schedules.
DebounceFires ==
  /\ timeout.set
  /\ timeout.behind = 0
  /\ ~MicrotaskReady
  /\ AnalyzeDocumentCanStart
  /\ timeout' = NoTimer

\* The 500 ms timer fires: analyzeDocument(event.document).
OnDebounceTimeout ==
  /\ DebounceFires
  /\ AnalyzeDocument(timeout.document, ext)
  /\ UNCHANGED <<ui, cli, now, code, result, probe, baseVars, enhancedVars, reply>>

\* onDidChangeActiveTextEditor, the analyzeFile command and the call at the
\* end of activate: analyzeDocument of the active editor's document.
OnDidChangeActiveTextEditor(document) ==
  /\ ext.events < MaxEvents
  /\ AnalyzeDocument(document, [ext EXCEPT !.events = @ + 1])
  /\ UNCHANGED <<timeout, ui, cli, now, code, result, probe, baseVars, enhancedVars, reply>>

\* The 100 ms timer of the oldest waiting analyzeCode call fires: the call
\* returns and analyzeDocument stores the diagnostics of its text.
AnalyzeDocumentResume ==
  /\ TimerFires
  /\ ext' = [ext EXCEPT !.diagnostics[Head(calls).document] =
               Diagnostics(Head(calls).code,
                           EnhancedAnalyzeCode(Self, Head(calls).code, now))]
  /\ timeout' = IF timeout.set /\ timeout.behind > 0
                THEN [timeout EXCEPT !.behind = @ - 1] ELSE timeout
  /\ UNCHANGED <<ui, cli, now, code, result, probe, baseVars, enhancedVars, reply>>

\* ------------------------------------------------------------- the web UI
\* The delays of the page's timers in milliseconds, and the pauses the
\* user makes between two events.
InitialDelay == 500
InputDelay == 800
WaitDelay == 300
Pauses == {100, 300}

\* The texts typed into the code input.
UiTexts == {SampleLines[2], SampleLines[3]}

\* What updateSidebar shows for results.
Sidebar(results) ==
  [count |-> Len(results.issues),
   riskLevel |-> CASE results.summary.riskLevel = "low" -> "LOW"
                   [] results.summary.riskLevel = "medium" -> "MEDIUM"
                   [] OTHER -> "HIGH",
   score |-> results.summary.compatibilityScore]

\* hideResults: the panel is hidden and the sidebar shows 0, LOW and 100.
HideResults(u) ==
  [u EXCEPT !.hidden = TRUE,
            !.sidebar = Sidebar([issues |-> <<>>,
                                 summary |-> [riskLevel |-> "low",
                                              compatibilityScore |-> Points(100)]])]

\* updateStats: the line and character counts (the quick feature count is
\* left out).
UpdateStats(u) ==
  [u EXCEPT !.stats = [lines |-> Len(Split(u.value)), chars |-> Len(u.value)]]

\* The page after the constructor of BaselineCopilotApp: the input is
\* empty, the panel hidden, and the timer of the initial analysis is set.
\* lastInput is the time of the last input event (-1: none), burst the
\* input events since the last debounced run, debounced the runs the debounce has
\* started since the last input event; cleared holds from clearAll until an
\* analysis of non-empty code is started, clearedWith is currentAnalysis as
\* clearAll left it; events counts the user's events.
UiInit ==
  UpdateStats(
    [time |-> 0, value |-> <<>>, hidden |-> TRUE,
     sidebar |-> [count |-> 0, riskLevel |-> "LOW", score |-> Points(100)],
     status |-> <<"">>, stats |-> [lines |-> 0, chars |-> 0],
     currentAnalysis |-> NoResult,
     timers |-> {[kind |-> "initial", due |-> InitialDelay]},
     timeoutId |-> [set |-> FALSE],
     lastInput |-> -1, burst |-> 0, debounced |-> 0,
     cleared |-> FALSE, clearedWith |-> NoResult, events |-> 0])

\* A listener that sets a new timer without clearing the one before.
ClearTimeoutForgotten(timers, id) == timers

\* clearTimeout(id)
ClearTimeout(timers, id) == timers \ {id}

\* analyzeCode of the page up to its await: empty code hides the results,
\* other code is analyzed after a wait of 300 ms.
StartAnalyzeCode(u) ==
  LET trimmed == Trim(u.value)
  IN IF trimmed = <<>> THEN HideResults(u)
     ELSE [u EXCEPT !.status = <<"Analyzing...">>,
                    !.cleared = FALSE,
                    !.timers = @ \cup {[kind |-> "wait", due |-> u.time + WaitDelay,
                                        code |-> trimmed]}]

\* analyzeCode of the page after its await, for the code it read before.
FinishAnalyzeCode(u, text, clock) ==
  LET results == AnalyzeCode(baseFeatures, text, clock)
  IN [u EXCEPT !.currentAnalysis = results,
               !.sidebar = Sidebar(results),
               !.hidden = FALSE,
               !.status = <<"Found", Len(results.issues), "features">>]

\* The timers that are due.
Due(kind) == {t \in ui.timers : t.kind = kind /\ t.due <= ui.time}

\* An 'input' event: the stats are updated, the pending debounce timer is
\* cleared and a new one is set.
Input(text) ==
  /\ ui.events < MaxEvents
  /\ Due("initial") \cup Due("input") \cup Due("wait") = {}
  /\ text # ui.value
  /\ LET timer == [kind |-> "input", due |-> ui.time + InputDelay]
     IN ui' = [UpdateStats([ui EXCEPT !.value = text]) EXCEPT
                 !.timers = ClearTimeout(ui.timers, ui.timeoutId) \cup {timer},
                 !.timeoutId = timer,
                 !.lastInput = ui.time,
                 !.burst = IF ui.debounced > 0 THEN 1 ELSE Min(@ + 1, MaxEvents),
                 !.debounced = 0,
                 !.events = @ + 1]
  /\ UNCHANGED <<timeout, ext, cli, now, code, result, probe, baseVars, enhancedVars, calls, reply>>

\* A click on the analyze button (or Ctrl+Enter).
ClickAnalyze ==
  /\ ui.events < MaxEvents
  /\ Due("initial") \cup Due("input") \cup Due("wait") = {}
  /\ ui' = StartAnalyzeCode([ui EXCEPT !.events = @ + 1])
  /\ UNCHANGED <<timeout, ext, cli, now, code, result, probe, baseVars, enhancedVars, calls, reply>>

\* clearAll: a click on the clear button.
ClearAll ==
  /\ ui.events < MaxEvents
  /\ Due("initial") \cup Due("input") \cup Due("wait") = {}
  /\ ui' = [UpdateStats(HideResults([ui EXCEPT !.value = <<>>])) EXCEPT
              !.status = <<"">>,
              !.cleared = TRUE,
              !.clearedWith = ui.currentAnalysis,
              !.events = @ + 1]
  /\ UNCHANGED <<timeout, ext, cli, now, code, result, probe, baseVars, enhancedVars, calls, reply>>

\* The timer of initializeApp fires.
InitialTimeout ==
  /\ \E t \in Due("initial") :
       ui' = StartAnalyzeCode([ui EXCEPT !.timers = @ \ {t}])
  /\ UNCHANGED <<timeout, ext, cli, now, code, result, probe, baseVars, enhancedVars, calls, reply>>

\* The debounce timer of the input listener fires.
InputTimeout ==
  /\ \E t \in Due("input") :
       ui' = StartAnalyzeCode([ui EXCEPT !.timers = @ \ {t},
                                         !.debounced = @ + 1])
  /\ UNCHANGED <<timeout, ext, cli, now, code, result, probe, baseVars, enhancedVars, calls, reply>>

\* The 300 ms wait of an analyzeCode run ends.
WaitTimeout ==
  /\ \E t \in Due("wait") :
       ui' = FinishAnalyzeCode([ui EXCEPT !.timers = @ \ {t}], t.code, now)
  /\ UNCHANGED <<timeout, ext, cli, now, code, result, probe, baseVars, enhancedVars, calls, reply>>

\* Time passes while no timer is due, up to the next timer that falls due.
Advance(pause) ==
  /\ ui.time + pause <= MaxTime
  /\ \A t \in ui.timers : ui.time + pause <= t.due
  /\ ui' = [ui EXCEPT !.time = @ + pause]
  /\ UNCHANGED <<timeout, ext, cli, now, code, result, probe, baseVars, enhancedVars, calls, reply>>

\* ---------------------------------------------------------------- the CLI
\* The files that resolveFiles may return, in its order, and their content.
Files == <<"a.js", "b.css", "c.ts">>

FileText(file) ==
  CASE file = "a.js" -> SampleLines[4]
    [] file = "b.css" -> SampleLines[2]
    [] OTHER -> SampleLines[5]

\* The lists resolveFiles returns: the files that exist, in order.
FileLists ==
  {SelectSeq(Files, LAMBDA f : f \in present) :
     present \in SUBSET {Files[k] : k \in 1..Len(Files)}}

\* The values of --threshold as commander passes them: strings.
Thresholds == {<<>>, <<"0">>, <<"2">>, <<"1", "0">>}

DefaultThreshold == 10

\* options.threshold || 10, as the comparison totalIssues > threshold
\* reads it.
ThresholdOf(option) == IF option = <<>> THEN DefaultThreshold ELSE ParseInt(option)

\* No command runs.  read lists, for the files visited so far, whether
\* fs.readFile succeeded; exited says whether the process has exited, status with what.
CliInit ==
  [command |-> "none", files |-> <<>>, ci |-> FALSE, threshold |-> <<>>,
   i |-> 1, read |-> <<>>, results |-> <<>>, processedFiles |-> 0,
   warnings |-> <<>>, totalIssues |-> 0, errorCount |-> 0, highRiskFiles |-> 0,
   exited |-> FALSE, status |-> 0]

\* results.reduce((sum, result) => sum + result.issues.length, 0)
RECURSIVE TotalIssues(_, _)
TotalIssues(results, k) ==
  IF k > Len(results) THEN 0
  ELSE Len(results[k].issues) + TotalIssues(results, k + 1)

\* The baseline-copilot command is started: analyze or check, with the
\* files found and the options given.
StartCommand(command, files, ci, threshold) ==
  /\ cli.command = "none"
  /\ cli' = [cli EXCEPT !.command = command, !.files = files, !.ci = ci,
                        !.threshold = threshold,
                        !.exited = command = "analyze" /\ files = <<>>]
  /\ UNCHANGED <<timeout, ext, ui, now, code, result, probe, baseVars, enhancedVars, calls, reply>>

\* An analyze command without the try around each file: a failed read
\* is caught by the outer catch, which exits with 1.
AfterFailedReadAbort(c) ==
  [c EXCEPT !.read = Append(@, FALSE), !.exited = TRUE, !.status = 1]

\* analyzeCommand, the catch inside the loop: a warning, and on to the next
\* file.
AfterFailedRead(c) ==
  [c EXCEPT !.read = Append(@, FALSE),
            !.warnings = Append(@, c.files[c.i]),
            !.i = @ + 1]

\* analyzeCommand, one turn of the loop: the file is read and analyzed and
\* its entry pushed, or the read fails.
AnalyzeFile(ok) ==
  /\ cli.command = "analyze"
  /\ ~cli.exited
  /\ cli.i <= Len(cli.files)
  /\ cli' = IF ok
            THEN LET analysis ==
                       EnhancedAnalyzeCode(Self, FileText(cli.files[cli.i]), now)
                 IN [cli EXCEPT !.read = Append(@, TRUE),
                                !.results = Append(@,
                                  [file |-> cli.files[cli.i],
                                   issues |-> analysis.issues,
                                   summary |-> analysis.summary,
                                   performance |-> analysis.summary.performanceImpact]),
                                !.processedFiles = @ + 1,
                                !.i = @ + 1]
            ELSE AfterFailedRead(cli)
  /\ UNCHANGED <<timeout, ext, ui, now, code, result, probe, baseVars, enhancedVars, calls, reply>>

\* analyzeCommand after the loop: the summary, and exit 1 in CI mode when
\* the issues exceed the threshold; otherwise the command returns and the
\* process ends with 0.
AnalyzeFinish ==
  /\ cli.command = "analyze"
  /\ ~cli.exited
  /\ cli.i > Len(cli.files)
  /\ LET totalIssues == TotalIssues(cli.results, 1)
     IN cli' = [cli EXCEPT
                  !.totalIssues = totalIssues,
                  !.highRiskFiles =
                    Cardinality({k \in 1..Len(cli.results) :
                                   cli.results[k].summary.riskLevel = "high"}),
                  !.exited = TRUE,
                  !.status = IF cli.ci /\ totalIssues > ThresholdOf(cli.threshold)
                             THEN 1 ELSE 0]
  /\ UNCHANGED <<timeout, ext, ui, now, code, result, probe, baseVars, enhancedVars, calls, reply>>

\* A check command that fails when the issues exceed the threshold.
CheckExitStatusOnThreshold(errorCount, totalIssues, threshold) ==
  IF errorCount > 0 THEN 1
  ELSE IF totalIssues > threshold THEN 1
  ELSE 0

\* checkCommand, lines 622-631: the status passed to process.exit.
CheckExitStatus(errorCount, totalIssues, threshold) ==
  IF errorCount > 0 THEN 1
  ELSE IF totalIssues > threshold THEN 0
  ELSE 0

\* checkCommand, one turn of the loop: no try around the file, so a failed
\* read is caught by the outer catch, which exits with 1.
CheckFile(ok) ==
  /\ cli.command = "check"
  /\ ~cli.exited
  /\ cli.i <= Len(cli.files)
  /\ cli' = IF ok
            THEN LET analysis ==
                       EnhancedAnalyzeCode(Self, FileText(cli.files[cli.i]), now)
                 IN [cli EXCEPT !.read = Append(@, TRUE),
                                !.totalIssues = @ + Len(analysis.issues),
                                !.errorCount = @ + CountSeverity(analysis.issues, "error"),
                                !.i = @ + 1]
            ELSE [cli EXCEPT !.read = Append(@, FALSE), !.exited = TRUE, !.status = 1]
  /\ UNCHANGED <<timeout, ext, ui, now, code, result, probe, baseVars, enhancedVars, calls, reply>>

\* checkCommand after the loop.
CheckFinish ==
  /\ cli.command = "check"
  /\ ~cli.exited
  /\ cli.i > Len(cli.files)
  /\ cli' = [cli EXCEPT !.exited = TRUE,
                        !.status = CheckExitStatus(cli.errorCount, cli.totalIssues,
                                                   ThresholdOf(cli.threshold))]
  /\ UNCHANGED <<timeout, ext, ui, now, code, result, probe, baseVars, enhancedVars, calls, reply>>

\* The hosts before any of their events.
HostInit ==
  /\ timeout = NoTimer
  /\ ext = ExtInit
  /\ ui = UiInit
  /\ cli = CliInit

\* ------------------------------------------------------ the specifications
\* Spec: both analyzers constructed at the date now, the enhanced one with
\* its four loaders fulfilled and loadOfficialData done, as the loaders of
\* the source leave it once the constructor's microtasks have run.
Init ==
  /\ now \in ClockSet
  /\ code = <<>>
  /\ result = NoResult
  /\ probe = NoProbe
  /\ baseFeatures = LoadFeatureDatabase
  /\ features = LoadWebFeaturesData(<<>>, now)
  /\ webPlatformData = LoadWebPlatformDashboardData
  /\ performanceData = LoadPerformanceData
  /\ communityData = LoadCommunityData
  /\ isDataLoaded = TRUE
  /\ loaders = [l \in Loaders |-> "fulfilled"]
  /\ loadState = "fulfilled"
  /\ calls = <<>>
  /\ reply = NoReply
  /\ HostInit

Next ==
  \/ \E l \in LineSet : TypeLine(l)
  \/ \E l \in LineSet : AppendLine(l)
  \/ Clear
  \/ AnalyzeBase
  \/ AnalyzeEnhanced

Spec == Init /\ [][Next]_vars

\* CallsSpec: the same analyzers called again and again on one-line texts,
\* the caller keeping an earlier result to compare a later one with.
CallsNext ==
  \/ \E l \in LineSet : TypeLine(l)
  \/ Clear
  \/ Remember
  \/ Tick
  \/ AnalyzeBase
  \/ AnalyzeEnhanced

CallsSpec == Init /\ [][CallsNext]_vars

\* LoadSpec: the enhanced analyzer from the return of its constructor, on
\* one text.  The constructor has called loadOfficialData, which has called
\* the four loaders and awaits them; a loader settles at any later step,
\* fulfilled or rejected.
LoadInit ==
  /\ now \in ClockSet
  /\ code \in LineSet
  /\ result = NoResult
  /\ probe = NoProbe
  /\ baseFeatures = LoadFeatureDatabase
  /\ features = <<>>
  /\ webPlatformData = EmptyMap
  /\ performanceData = EmptyMap
  /\ communityData = EmptyMap
  /\ isDataLoaded = FALSE
  /\ loaders = [l \in Loaders |-> "pending"]
  /\ loadState = "awaiting"
  /\ calls = <<>>
  /\ reply = NoReply
  /\ HostInit

LoadNext ==
  \/ \E l \in Loaders : LoaderFulfil(l)
  \/ \E l \in Loaders : LoaderReject(l)
  \/ LoadOfficialDataThen
  \/ LoadOfficialDataFail
  \/ AnalyzeEnhanced
  \/ AnalyzeEnhancedWait
  \/ AnalyzeEnhancedResume

LoadSpec == LoadInit /\ [][LoadNext]_vars

\* LoadSpec with the scheduling of the event loop for the load: a pending
\* loader settles, and the continuation of loadOfficialData queued by the
\* settling of Promise.all runs.
FairLoadSpec ==
  /\ LoadInit
  /\ [][LoadNext]_vars
  /\ \A l \in Loaders : WF_vars(LoaderFulfil(l) \/ LoaderReject(l))
  /\ WF_vars(LoadOfficialDataThen)
  /\ WF_vars(LoadOfficialDataFail)

\* LoadSpec with the scheduling of the event loop for the calls only: a
\* queued continuation of loadOfficialData runs and a timer that was set
\* fires, but no loader has to settle.
TimerLoadSpec ==
  /\ LoadInit
  /\ [][LoadNext]_vars
  /\ WF_vars(LoadOfficialDataThen)
  /\ WF_vars(LoadOfficialDataFail)
  /\ WF_calls(TimerFires)

\* OperationsSpec: both analyzers after construction and load, with every
\* operation the enhanced analyzer offers, on one-line texts.
OperationsNext ==
  \/ \E l \in LineSet : TypeLine(l)
  \/ Clear
  \/ AnalyzeBase
  \/ AnalyzeEnhanced
  \/ \E featureData \in FeatureIds : SubmitFeatureRequest(featureData)
  \/ \E featureId \in FeatureIds : \E vote \in Votes : VoteOnFeature(featureId, vote)
  \/ GetTopRequestedFeatures

OperationsSpec == Init /\ [][OperationsNext]_vars

\* ConcurrentSpec: the enhanced analyzer constructed at the first date,
\* from the moment its performance and community loaders have fulfilled
\* and the other two are pending; these fulfil one by one while the caller
\* changes the text and calls analyzeCode with calls still waiting on
\* their timers.  (analyzeCode of BaselineAnalyzer is
\* synchronous: no two of its calls are ever in flight at once.)
ConcurrentInit ==
  /\ now = Clocks[1]
  /\ code = <<>>
  /\ result = NoResult
  /\ probe = NoProbe
  /\ baseFeatures = LoadFeatureDatabase
  /\ features = <<>>
  /\ webPlatformData = EmptyMap
  /\ performanceData = LoadPerformanceData
  /\ communityData = LoadCommunityData
  /\ isDataLoaded = FALSE
  /\ loaders = [l \in Loaders |->
                  IF l \in {"loadPerformanceData", "loadCommunityData"}
                  THEN "fulfilled" ELSE "pending"]
  /\ loadState = "awaiting"
  /\ calls = <<>>
  /\ reply = NoReply
  /\ HostInit

ConcurrentNext ==
  \/ \E l \in LineSet : TypeLine(l)
  \/ Clear
  \/ \E l \in Loaders : LoaderFulfil(l)
  \/ LoadOfficialDataThen
  \/ AnalyzeEnhanced
  \/ AnalyzeEnhancedWait
  \/ AnalyzeEnhancedResume

ConcurrentSpec == ConcurrentInit /\ [][ConcurrentNext]_vars

\* ExtensionSpec: the editor extension from activate on, with the analyzer
\* of ConcurrentSpec: its loaders fulfil while the user changes documents
\* and switches editors.
ExtensionNext ==
  \/ \E d \in Documents : \E t \in DocumentTexts : OnDidChangeTextDocument(d, t)
  \/ OnDebounceTimeout
  \/ \E d \in Documents : OnDidChangeActiveTextEditor(d)
  \/ AnalyzeDocumentResume
  \/ \E l \in Loaders : LoaderFulfil(l)
  \/ LoadOfficialDataThen

ExtensionSpec == ConcurrentInit /\ [][ExtensionNext]_vars

\* ExtensionSpec with the scheduling of the event loop: queued
\* continuations run and timers that are set fire.  The user's events need
\* not happen.
FairExtensionSpec ==
  /\ ConcurrentInit
  /\ [][ExtensionNext]_vars
  /\ WF_vars(LoadOfficialDataThen)
  /\ WF_calls(TimerFires)
  /\ WF_timeout(DebounceFires)

\* UiSpec: the web page from the construction of BaselineCopilotApp, with
\* the time in milliseconds: timers fire when they fall due.
UiNext ==
  \/ \E t \in UiTexts : Input(t)
  \/ ClickAnalyze
  \/ ClearAll
  \/ InitialTimeout
  \/ InputTimeout
  \/ WaitTimeout
  \/ \E p \in Pauses : Advance(p)

UiSpec == Init /\ [][UiNext]_vars

\* CliSpec: one run of the command line, analyze or check, on the files
\* found; every read of a file may fail.
CliNext ==
  \/ \E command \in {"analyze", "check"} : \E files \in FileLists :
       \E ci \in BOOLEAN : \E threshold \in Thresholds :
         StartCommand(command, files, ci, threshold)
  \/ \E ok \in BOOLEAN : AnalyzeFile(ok)
  \/ AnalyzeFinish
  \/ \E ok \in BOOLEAN : CheckFile(ok)
  \/ CheckFinish

CliSpec == Init /\ [][CliNext]_vars

\* -------------------------------------------------------------- properties
\* What the properties read from the state: the returned result, the text
\* it was computed for and the catalog of the analyzer that computed it.
Returned == result # NoResult

Summary == result.value.summary

Issues == result.value.issues

Catalog == IF result.analyzer = "base" THEN baseFeatures ELSE features

ResultLines == Split(result.code)

\* The positions of line at which pattern occurs.
Occurrences(line, pattern) ==
  {pos \in 1..Len(line) : MatchAlternatives(pattern, 1, line, pos) # 0}

\* The objects of the result for the feature id on the 1-based line n.
IssuesAt(id, n) ==
  {k \in DOMAIN Issues : Issues[k].id = id /\ Issues[k].line = n}

\* C1: every returned summary has riskScore at most 100, compatibilityScore
\* between 0 and 100, and compatibilityScore = 100 - riskScore.
C1_ScoreBounds ==
  Returned =>
    /\ Summary.riskScore >= 0
    /\ Summary.riskScore <= Points(100)
    /\ Summary.compatibilityScore >= 0
    /\ Summary.compatibilityScore <= Points(100)
    /\ Summary.compatibilityScore = Points(100) - Summary.riskScore

\* C1 is met where the cap acts: the scores of the objects add up to more
\* than 100 and the summary says 100 and 0.
C1_Capped ==
  /\ Returned
  /\ result.analyzer = "base"
  /\ SumBaseScores(Issues, 1) > Points(100)
  /\ Summary.riskScore = Points(100)
  /\ Summary.compatibilityScore = 0

\* C2: for every feature of the catalog and every line of the text, the
\* result holds exactly one object for that feature on that line when the
\* feature's pattern occurs in the line, however often, and none otherwise.
C2_OnePerFeatureAndLine ==
  Returned =>
    /\ \A f \in 1..Len(Catalog) : \A n \in 1..Len(ResultLines) :
         Cardinality(IssuesAt(Catalog[f].id, n)) =
           IF Occurrences(ResultLines[n], Catalog[f].pattern) # {} THEN 1 ELSE 0
    /\ \A k \in DOMAIN Issues :
         /\ Issues[k].line \in 1..Len(ResultLines)
         /\ \E f \in 1..Len(Catalog) : Catalog[f].id = Issues[k].id

\* C2 is met on a line in which one pattern occurs twice: one object.
C2_TwiceOnOneLine ==
  /\ Returned
  /\ \E f \in 1..Len(Catalog) : \E n \in 1..Len(ResultLines) :
       /\ Cardinality(Occurrences(ResultLines[n], Catalog[f].pattern)) >= 2
       /\ Cardinality(IssuesAt(Catalog[f].id, n)) = 1

\* C3: the severity of every object is the image of its status under the
\* table unsupported -> error, limited -> warning, newly-available ->
\* warning, widely-available -> info.
C3_SeverityOfStatus ==
  Returned =>
    \A k \in DOMAIN Issues :
      <<Issues[k].status, Issues[k].severity>> \in
        { <<"unsupported", "error">>, <<"limited", "warning">>,
          <<"newly-available", "warning">>, <<"widely-available", "info">> }

\* C3 is met by a result holding an object of limited status.
C3_LimitedIsWarning ==
  /\ Returned
  /\ \E k \in DOMAIN Issues :
       Issues[k].status = "limited" /\ Issues[k].severity = "warning"

\* The multiplier C4 gives an object, in tenths: 1.5 below 20 % usage, 0.8
\* above 60 %, 1.0 otherwise and without usage data.
ClaimedMultiplier(issue) ==
  IF "usage" \in DOMAIN issue /\ issue.usage.defined
  THEN IF issue.usage.value.percentage < 200 THEN 15
       ELSE IF issue.usage.value.percentage > 600 THEN 8
       ELSE 10
  ELSE 10

\* The sum of C4 in tenths of a point, by counting the objects of each
\* severity and multiplier.
ClaimedSum ==
  LET N(sev, m) ==
        Cardinality({k \in DOMAIN Issues :
                       Issues[k].severity = sev /\ ClaimedMultiplier(Issues[k]) = m})
      Term(sev, w) == w * (15 * N(sev, 15) + 10 * N(sev, 10) + 8 * N(sev, 8))
  IN Term("error", 15) + Term("warning", 5) + Term("info", 1)

\* C4: riskScore = min(100, sum over the objects of base(severity) x
\* multiplier), with base 15, 5, 1 for error, warning, info; so a text of
\* at least 20 lines that each hold an error-severity feature scores 100.
C4_RiskScoreFormula ==
  Returned =>
    /\ Summary.riskScore = Min(Points(100), ClaimedSum)
    /\ ( /\ Len(ResultLines) >= 20
         /\ \A n \in 1..Len(ResultLines) :
              \E k \in DOMAIN Issues :
                Issues[k].line = n /\ Issues[k].severity = "error" )
       => Summary.riskScore = Points(100)

\* C4 is met by 20 lines that each hold an error-severity feature.
C4_TwentyErrorLines ==
  /\ Returned
  /\ Len(ResultLines) = 20
  /\ \A n \in 1..Len(ResultLines) :
       \E k \in DOMAIN Issues : Issues[k].line = n /\ Issues[k].severity = "error"
  /\ Summary.riskScore = Points(100)

\* C5: riskLevel is high exactly when riskScore >= 40, medium exactly when
\* 15 <= riskScore < 40, low exactly when riskScore < 15.
C5_RiskLevelThresholds ==
  Returned =>
    /\ Summary.riskLevel \in {"high", "medium", "low"}
    /\ Summary.riskLevel = "high" <=> Summary.riskScore >= Points(40)
    /\ Summary.riskLevel = "medium" <=>
         (Summary.riskScore >= Points(15) /\ Summary.riskScore < Points(40))
    /\ Summary.riskLevel = "low" <=> Summary.riskScore < Points(15)

\* C5 is met on a boundary: a riskScore of exactly 40 is high.
C5_FortyIsHigh ==
  /\ Returned
  /\ Summary.riskScore = Points(40)
  /\ Summary.riskLevel = "high"

\* C6: for the empty text, and for a text in which no pattern of the
\* catalog occurs, analyzeCode returns a result with no objects, total 0,
\* riskScore 0 and compatibilityScore 100.
C6_NothingFound ==
  ( /\ Returned
    /\ \A f \in 1..Len(Catalog) : \A n \in 1..Len(ResultLines) :
         Occurrences(ResultLines[n], Catalog[f].pattern) = {} )
  => /\ Issues = <<>>
     /\ Summary.total = 0
     /\ Summary.riskScore = 0
     /\ Summary.compatibilityScore = Points(100)

\* C6 is met by the result for the empty text, which is one empty line.
C6_EmptyText ==
  /\ Returned
  /\ result.code = <<>>
  /\ Len(ResultLines) = 1
  /\ Summary.total = 0

\* C7: for a fixed analyzer instance and a fixed clock, a call on the same
\* text as an earlier call returns an equal result (objects in the same
\* order, summary, suggestions, metadata), whatever calls came in between.
C7_SameTextSameResult ==
  ( /\ probe.kept # NoResult
    /\ Returned
    /\ result.analyzer = probe.kept.analyzer
    /\ result.code = probe.kept.code
    /\ result.value.metadata.analyzedAt = probe.kept.value.metadata.analyzedAt )
  => result.value = probe.kept.value

\* C7 is met by a later call on the text of a kept result that found
\* something, after a call on another text.
C7_CalledAgainAfterAnother ==
  /\ probe.kept # NoResult
  /\ probe.kept.value.issues # <<>>
  /\ probe.later >= 2
  /\ probe.other
  /\ Returned
  /\ result.analyzer = probe.kept.analyzer
  /\ result.code = probe.kept.code
  /\ result.value = probe.kept.value

\* The lines that hold an occurrence of a feature of catalog fs whose
\* status is unsupported.
UnsupportedLines(fs) ==
  {l \in LineSet :
     \E f \in 1..Len(fs) :
       fs[f].status = "unsupported" /\ Occurrences(l, fs[f].pattern) # {}}

\* The riskScore the analyzer of the returned result gives the text t.
RiskScoreOf(t) ==
  IF result.analyzer = "base"
  THEN AnalyzeCode(baseFeatures, t, now).summary.riskScore
  ELSE EnhancedAnalyzeCode(Self, t, now).summary.riskScore

\* C8: for the text t of a returned result and every line L holding an
\* occurrence of an unsupported feature, the riskScore of t followed by a
\* line feed and L is at least the riskScore of t.
C8_AppendingUnsupportedNeverLowers ==
  Returned =>
    \A l \in UnsupportedLines(Catalog) :
      RiskScoreOf(result.code \o <<LF>> \o l) >= Summary.riskScore

\* C8 is met where the appended line raises the score of a text that
\* already scores.
C8_AppendingRaises ==
  /\ Returned
  /\ Summary.riskScore > 0
  /\ \E l \in UnsupportedLines(Catalog) :
       RiskScoreOf(result.code \o <<LF>> \o l) > Summary.riskScore

C10_LoadNeverFailsOutward ==
  /\ [](loadState # "rejected")
  /\ <>isDataLoaded
  /\ []((Returned /\ PromiseAllRejected) =>
          /\ result.analyzer = "enhanced"
          /\ Summary.total = Len(Issues)
          /\ Summary.riskScore <= Points(100))

\* C10 is met after a loader has failed: loadOfficialData has gone through
\* its catch block and a call made afterwards has returned its result.
C10_ReturnedAfterFailedLoad ==
  /\ PromiseAllRejected
  /\ loadState = "fulfilled"
  /\ isDataLoaded
  /\ Returned
  /\ result.value.metadata.officialData

TextOfReturningCall == IF Len(calls') < Len(calls) THEN Head(calls).code ELSE code

\* C12: with several analyzeCode calls in flight at once, every call
\* returns the result it would return alone on its own text: the result
\* of analyzing that text, and nothing of another call's text.
C12_EachCallAlone ==
  [][ (result' # result /\ result' # NoResult) =>
        /\ result'.code = TextOfReturningCall
        /\ result'.value =
             IF result'.analyzer = "base"
             THEN AnalyzeCode(baseFeatures, TextOfReturningCall, now)
             ELSE EnhancedAnalyzeCode(Self, TextOfReturningCall, now) ]_vars

\* C12 is met by a call that has found something and returned while a call
\* on another text was still waiting.
C12_ReturnedWhileAnotherWaits ==
  /\ Returned
  /\ result.analyzer = "enhanced"
  /\ Issues # <<>>
  /\ result.others # <<>>
  /\ result.others[1].code # result.code

\* C13: after construction and load, no operation of the analyzers changes
\* the feature catalogs or the usage, performance and community tables.
C13_CatalogReadOnly ==
  [][ UNCHANGED <<baseFeatures, features, webPlatformData, performanceData,
                  communityData>> ]_vars

\* C13 is met after a vote and an analysis, the tables being those loaded.
C13_AfterVoteAndAnalysis ==
  /\ reply.op = "voteOnFeature"
  /\ Returned
  /\ result.analyzer = "enhanced"
  /\ features = LoadWebFeaturesData(<<>>, now)
  /\ communityData = LoadCommunityData

\* The position of the feature id in the catalog of the returned result.
CatalogPosition(id) == CHOOSE f \in 1..Len(Catalog) : Catalog[f].id = id

\* C14: the objects of a result are ordered by the catalog position of
\* their feature and, within one feature, by ascending line.
C14_CatalogThenLineOrder ==
  Returned =>
    \A i \in DOMAIN Issues : \A j \in DOMAIN Issues :
      i < j =>
        \/ CatalogPosition(Issues[i].id) < CatalogPosition(Issues[j].id)
        \/ /\ Issues[i].id = Issues[j].id
           /\ Issues[i].line < Issues[j].line

\* C14 is met where the two orders differ: an object of a later line comes
\* before an object of an earlier line.
C14_LaterLineFirst ==
  /\ Returned
  /\ \E i \in DOMAIN Issues : \E j \in DOMAIN Issues :
       i < j /\ Issues[i].line > Issues[j].line

\* The four availability tiers.
Statuses == {"widely-available", "newly-available", "limited", "unsupported"}

\* The ids of a catalog are pairwise distinct and its statuses are tiers.
CatalogInvariant(fs) ==
  /\ \A f \in 1..Len(fs) : \A g \in 1..Len(fs) : fs[f].id = fs[g].id => f = g
  /\ \A f \in 1..Len(fs) : fs[f].status \in Statuses

\* C15: after construction every catalog entry has an id of its own and a
\* status that is one of the four tiers, given directly or derived from
\* dates.
C15_CatalogWellFormed == CatalogInvariant(baseFeatures) /\ CatalogInvariant(features)

\* C15 is met by the two catalogs as constructed, the enhanced one with a
\* status derived from dates that have not passed.
C15_BothCatalogsBuilt ==
  /\ Len(baseFeatures) = 10
  /\ Len(features) = 5
  /\ \E f \in 1..Len(features) : features[f].status = "limited"

\* The tier C16 gives a baseline record at the date clock.
ClaimedTier(tier, baseline, clock) ==
  CASE tier = "unsupported" -> ~baseline.present
    [] tier = "widely-available" -> baseline.present /\ baseline.high_date <= clock
    [] tier = "newly-available" ->
         baseline.present /\ baseline.low_date <= clock /\ clock < baseline.high_date
    [] tier = "limited" ->
         baseline.present /\ clock < baseline.low_date /\ clock < baseline.high_date
    [] OTHER -> FALSE

\* The dates getBaselineStatus is tried at: the clock readings and the low
\* and high dates themselves.
TierDates ==
  ClockSet \cup {WebFeaturesData[i].baseline.low_date : i \in 1..Len(WebFeaturesData)}
           \cup {WebFeaturesData[i].baseline.high_date : i \in 1..Len(WebFeaturesData)}

\* C16: getBaselineStatus gives widely-available when the high date has
\* passed, newly-available when only the low date has, limited when
\* neither has, unsupported without a baseline record: for the entries of
\* the loaded catalog at the date of loading, and for every record and
\* every date tried.
C16_TierFromDates ==
  /\ \A f \in 1..Len(features) :
       \E i \in 1..Len(WebFeaturesData) :
         /\ WebFeaturesData[i].key = features[f].id
         /\ ClaimedTier(features[f].status, WebFeaturesData[i].baseline, now)
  /\ \A c \in TierDates :
       /\ GetBaselineStatus([present |-> FALSE], c) = "unsupported"
       /\ \A i \in 1..Len(WebFeaturesData) :
            ClaimedTier(GetBaselineStatus(WebFeaturesData[i].baseline, c),
                        WebFeaturesData[i].baseline, c)

\* C16 is met by a loaded catalog that holds an entry of each of the three
\* tiers derived from dates.
C16_ThreeTiersLoaded ==
  \A t \in {"widely-available", "newly-available", "limited"} :
    \E f \in 1..Len(features) : features[f].status = t

\* The suggestions C17 gives a result: the rules that fire, in order, each
\* with its count.
ClaimedSuggestions ==
  LET errors == Cardinality({k \in DOMAIN Issues : Issues[k].severity = "error"})
      warnings == Cardinality({k \in DOMAIN Issues : Issues[k].severity = "warning"})
      polyfills == Cardinality({k \in DOMAIN Issues : Issues[k].polyfill # ""})
  IN (IF errors > 0 THEN <<[type |-> "error", count |-> errors]>> ELSE <<>>)
     \o (IF warnings > 2 THEN <<[type |-> "warning", count |-> warnings]>> ELSE <<>>)
     \o (IF polyfills > 0 THEN <<[type |-> "fix", count |-> polyfills]>> ELSE <<>>)

\* C17: the suggestions of a result are exactly the fired rules, in this
\* order: unsupported features iff there is an error-severity object, newly
\* available features iff there are more than two warning-severity objects,
\* polyfill options iff an object has a polyfill; each with its count.
C17_SuggestionsAreFiredRules ==
  Returned => result.value.suggestions = ClaimedSuggestions

\* The objects of the result for the feature id.
IssuesOf(id) == {k \in DOMAIN Issues : Issues[k].id = id}

\* C18: the line  const x = a?.b ?? 'y';  gives exactly one object for
\* optional-chaining, widely-available and info, and exactly one for
\* nullish-coalescing, at line 1 and column 16, with both analyzers.
C18_OptionalChainingAndNullish ==
  (Returned /\ result.code = SampleLines[1]) =>
    /\ Cardinality(IssuesOf("optional-chaining")) = 1
    /\ \A k \in IssuesOf("optional-chaining") :
         Issues[k].status = "widely-available" /\ Issues[k].severity = "info"
    /\ Cardinality(IssuesOf("nullish-coalescing")) = 1
    /\ \A k \in IssuesOf("nullish-coalescing") :
         Issues[k].line = 1 /\ Issues[k].column = 16

\* C19: the text  .card:has(img){}  gives exactly one object for the CSS
\* :has() feature, newly-available, warning and with a fallback, with both
\* analyzers and at every date of construction.
C19_CssHasNewlyAvailable ==
  (Returned /\ result.code = SampleLines[2]) =>
    /\ Cardinality(IssuesOf("css-has")) = 1
    /\ \A k \in IssuesOf("css-has") :
         /\ Issues[k].status = "newly-available"
         /\ Issues[k].severity = "warning"
         /\ Issues[k].fallback # ""

\* C20: the line of an object is the 1-based index of its line in the text
\* split on line feeds, its column the 1-based index in that line,
\* untrimmed, of the first character of the leftmost match of its
\* feature's pattern, and its matchedText the substring of the line from
\* there.
C20_LineAndColumn ==
  Returned =>
    \A k \in DOMAIN Issues :
      /\ Issues[k].line \in 1..Len(ResultLines)
      /\ LET ln == ResultLines[Issues[k].line]
             occ == Occurrences(ln, Catalog[CatalogPosition(Issues[k].id)].pattern)
         IN /\ occ # {}
            /\ Issues[k].column \in occ
            /\ \A pos \in occ : Issues[k].column <= pos
            /\ Issues[k].matchedText # <<>>
            /\ SubSeq(ln, Issues[k].column,
                      Issues[k].column + Len(Issues[k].matchedText) - 1)
                 = Issues[k].matchedText

\* C20 is met by an object on a later line that starts with blanks: its
\* column counts the blanks that its code field has lost.
C20_ColumnAfterBlanks ==
  /\ Returned
  /\ \E k \in DOMAIN Issues :
       /\ Issues[k].line > 1
       /\ Issues[k].column > 1
       /\ ResultLines[Issues[k].line][1] \in WhiteSpace
       /\ Issues[k].code # ResultLines[Issues[k].line]

\* summary.breakdown[s], or 0 where the object has no such key.
BreakdownOf(s) == IF s \in DOMAIN Summary.breakdown THEN Summary.breakdown[s] ELSE 0

\* C21: summary.breakdown has an entry exactly for the severities that occur
\* among the returned objects, each entry is the number of objects of that
\* severity, and the entries sum to summary.total.
C21_BreakdownCounts ==
  Returned =>
    /\ DOMAIN Summary.breakdown \subseteq {"error", "warning", "info"}
    /\ \A s \in {"error", "warning", "info"} :
         /\ s \in DOMAIN Summary.breakdown
              <=> \E k \in DOMAIN Issues : Issues[k].severity = s
         /\ BreakdownOf(s) = Cardinality({k \in DOMAIN Issues : Issues[k].severity = s})
    /\ BreakdownOf("error") + BreakdownOf("warning") + BreakdownOf("info")
         = Summary.total

C21_TwoSeveritiesOneAbsent ==
  /\ Returned
  /\ Cardinality(DOMAIN Summary.breakdown) = 2
  /\ \E s \in DOMAIN Summary.breakdown : Summary.breakdown[s] >= 2

\* The size in KB that performanceData declares for feature id, 0 when it
\* declares none.
DeclaredBundleSize(id) ==
  IF id \in DOMAIN performanceData
  THEN LET sizeMatch == Match(performanceData[id].bundle_size, PatBundleSize)
       IN IF sizeMatch.found THEN ParseInt(SizeDigits(sizeMatch.text)) ELSE 0
  ELSE 0

RECURSIVE SumDeclaredBundleSizes(_)
SumDeclaredBundleSizes(ids) ==
  IF ids = {} THEN 0
  ELSE LET id == CHOOSE x \in ids : TRUE
       IN DeclaredBundleSize(id) + SumDeclaredBundleSizes(ids \ {id})

\* C22: the bundle size of summary.performanceImpact is the sum of the
\* declared sizes of the features matched in the text, each matched feature
\* counted once however many lines it occurs on.
C22_BundleSizeOncePerFeature ==
  (Returned /\ result.analyzer = "enhanced") =>
    Summary.performanceImpact.bundleSize
      = SumDeclaredBundleSizes({Issues[k].id : k \in DOMAIN Issues})

\* C23: every object returned by the enhanced analyzer carries the tier of
\* its feature's baseline dates at the date of the analyzeCode call
\* (metadata.analyzedAt), and the severity of that tier, also when a date
\* has passed since the analyzer was constructed.
C23_StatusAtCallTime ==
  (Returned /\ result.analyzer = "enhanced") =>
    \A k \in DOMAIN Issues :
      \E i \in 1..Len(WebFeaturesData) :
        /\ WebFeaturesData[i].key = Issues[k].id
        /\ Issues[k].status
             = GetBaselineStatus(WebFeaturesData[i].baseline,
                                 result.value.metadata.analyzedAt)
        /\ Issues[k].severity = GetSeverity(Issues[k].status)

\* A waiting call leaves the queue of waiting calls only by returning a
\* result for its own text.
LeavesByReturning ==
  (calls # <<>> /\ calls' = Tail(calls)) =>
    (result'.analyzer = "enhanced" /\ result'.code = Head(calls).code)

\* C24: every analyzeCode call that waits for the catalog returns a result
\* after the one wait, also when no loader ever settles and isDataLoaded
\* stays false: a call leaves the wait only by returning, and either the
\* queue of waiting calls is empty again and again or its oldest call
\* returns again and again.
C24_EveryCallReturns ==
  /\ [][LeavesByReturning]_vars
  /\ \/ []<>(calls = <<>>)
     \/ []<><<TimerFires>>_calls

C24_ReturnedWithoutData ==
  /\ Returned
  /\ result.analyzer = "enhanced"
  /\ ~isDataLoaded
  /\ \A l \in Loaders : loaders[l] = "pending"
  /\ ~result.value.metadata.officialData

\* Whether an analyzeDocument call for document is still waiting.
InFlight(document) == \E k \in 1..Len(calls) : calls[k].document = document

\* C25: once every analyzeDocument call started for a document has
\* completed, the diagnostics stored for it are those of the text of the
\* call started last (they were computed from that text, or are what that
\* text gives).
C25_LatestCallWins ==
  \A d \in Documents :
    (ext.latest[d].started /\ ~InFlight(d)) =>
      /\ ext.diagnostics[d].set
      /\ \/ ext.diagnostics[d].code = ext.latest[d].code
         \/ ext.diagnostics[d].items
              = Diagnostics(ext.latest[d].code,
                            EnhancedAnalyzeCode(Self, ext.latest[d].code, now)).items

\* C26: with real-time analysis on, a document that received a text change
\* is analyzed with its changed text once the changes have stopped.
C26_ChangedDocumentAnalyzed ==
  \A d \in Documents : (d \in ext.unanalyzed) ~> (d \notin ext.unanalyzed)

\* The debounce timers of the input listener that are pending.
InputTimers == {t \in ui.timers : t.kind = "input"}

\* The timer set by the last input event.
LastInputTimer == [kind |-> "input", due |-> ui.lastInput + InputDelay]

\* C27: at most one debounce timer of the input listener is pending, and
\* the input events of a burst lead to exactly one debounced analyzeCode
\* run, which starts 800 ms after the last of them: before that time the
\* timer is pending and no run was started, after it one run was.
C27_OneDebouncedRun ==
  /\ Cardinality(InputTimers) <= 1
  /\ ui.lastInput >= 0 =>
       /\ ui.time < ui.lastInput + InputDelay =>
            (ui.debounced = 0 /\ InputTimers = {LastInputTimer})
       /\ ui.time = ui.lastInput + InputDelay =>
            \/ ui.debounced = 0 /\ InputTimers = {LastInputTimer}
            \/ ui.debounced = 1 /\ InputTimers = {}
       /\ ui.time > ui.lastInput + InputDelay =>
            (ui.debounced = 1 /\ InputTimers = {})

C27_RunAfterBurst ==
  /\ ui.burst >= 2
  /\ ui.debounced = 1
  /\ \E t \in ui.timers :
       t.kind = "wait" /\ t.due = ui.lastInput + InputDelay + WaitDelay

\* C28: after clearAll, until an analysis of non-empty code is started,
\* the results panel stays hidden, the sidebar shows 0 features, low risk
\* and 100, and currentAnalysis is not set.
C28_ClearedStaysCleared ==
  ui.cleared =>
    /\ ui.hidden
    /\ ui.sidebar = [count |-> 0, riskLevel |-> "LOW", score |-> Points(100)]
    /\ ui.currentAnalysis = ui.clearedWith

\* The positions among the files visited so far whose read succeeded.
ReadOk == SelectSeq([k \in 1..Len(cli.read) |-> k], LAMBDA k : cli.read[k])

\* C29: in the analyze command a file whose read fails gets a warning and
\* the run goes on: the process exits only after every file was visited,
\* the results hold one entry for each file read, in file order, with the
\* issues of its text, and processedFiles is their number.
C29_FailedFileIsSkipped ==
  cli.command = "analyze" =>
    /\ cli.exited => Len(cli.read) = Len(cli.files)
    /\ Len(cli.results) = Len(ReadOk)
    /\ \A k \in 1..Len(cli.results) :
         /\ cli.results[k].file = cli.files[ReadOk[k]]
         /\ cli.results[k].issues
              = EnhancedAnalyzeCode(Self, FileText(cli.files[ReadOk[k]]), now).issues
    /\ cli.processedFiles = Len(cli.results)
    /\ Len(cli.warnings) = Len(cli.read) - Len(ReadOk)

C29_FinishedPastFailure ==
  /\ cli.command = "analyze"
  /\ cli.exited
  /\ cli.status = 0
  /\ Len(cli.files) = 3
  /\ cli.read = <<TRUE, FALSE, TRUE>>
  /\ cli.processedFiles = 2

\* Whether an issue of error severity is among those of the files read.
ErrorFound ==
  \E k \in 1..Len(cli.read) :
    /\ cli.read[k]
    /\ CountSeverity(EnhancedAnalyzeCode(Self, FileText(cli.files[k]), now).issues,
                     "error") > 0

\* The issues of the files read.
RECURSIVE IssuesFound(_)
IssuesFound(k) ==
  IF k > Len(cli.read) THEN 0
  ELSE (IF cli.read[k]
        THEN Len(EnhancedAnalyzeCode(Self, FileText(cli.files[k]), now).issues)
        ELSE 0) + IssuesFound(k + 1)

====
